---- MODULE Spec2Model ----
(***************************************************************************)
(* Model of the technical_analysis indicator classes: BaseIndicatorClass,  *)
(* BaseMovingAverageClass, SimpleMovingAverage, MovingAverageCrossover and *)
(* SMA50CrossSMA200, and of the Analysis class of base.py.  A caller       *)
(* constructs indicators one after the other; each constructor runs its    *)
(* steps (normalise, validate, calculate) in the order of its __init__;    *)
(* the caller then takes output views of the indicator and writes into     *)
(* what they return (Spec).  On an Analysis the caller calls               *)
(* simple_moving_average and moving_average_crossover, which fill          *)
(* analysis_df (FacadeSpec).  Real numbers are exact rationals [n, d],     *)
(* d > 0, kept in lowest terms.                                            *)
(***************************************************************************)
EXTENDS Integers, Sequences, FiniteSets, TLC

\* ------------------------------------------------------------------ bounds
\* Longest enumerated input series, and largest sample value in it.
MaxLen == 3
MaxVal == 2
\* Largest window a caller asks for on the enumerated series.
MaxWin == 5
\* How many samples past the long window the longest preset input has.
MaxExtra == 1
\* How many samples each column of an Analysis input frame has.
FrameLen == 2
\* The last position of a returned view that a caller writes to.
MaxWrite == 1

\* The windows SMA50CrossSMA200 fixes for its two components.
Win50 == 50
Win200 == 200

\* ------------------------------------------------------------ Python values
None == [some |-> FALSE]
Some(v) == [some |-> TRUE, val |-> v]

NoError == [type |-> "none", msg |-> ""]
TypeError(m) == [type |-> "TypeError", msg |-> m]
ValueError(m) == [type |-> "ValueError", msg |-> m]
AttributeError(m) == [type |-> "AttributeError", msg |-> m]

\* An int, a float or None passed as a window.
IntArg(v) == [type |-> "int", val |-> v]
FloatArg(v) == [type |-> "float", val |-> v]
NoneArg == [type |-> "NoneType", val |-> 0]

\* ------------------------------------------------------------------ reals
RECURSIVE GCD(_, _)
GCD(a, b) == IF b = 0 THEN a ELSE GCD(b, a % b)

Abs(a) == IF a < 0 THEN -a ELSE a

Rat(n, d) ==
    LET g == GCD(Abs(n), d)
    IN  [n |-> n \div g, d |-> d \div g]

RatOfInt(k) == [n |-> k, d |-> 1]
RatMul(p, q) == [n |-> p.n * q.n, d |-> p.d * q.d]
RatAdd(p, q) ==
    IF p.d = q.d THEN [n |-> p.n + q.n, d |-> p.d]
    ELSE [n |-> p.n * q.d + q.n * p.d, d |-> p.d * q.d]
RatNorm(p) == Rat(p.n, p.d)
RatLess(p, q) == p.n * q.d < q.n * p.d
RatGreater(p, q) == RatLess(q, p)

Max(a, b) == IF a >= b THEN a ELSE b
Min(a, b) == IF a <= b THEN a ELSE b

\* ------------------------------------------------------------------ numpy
\* np.repeat(1.0, window) / window
UniformWeights(window) == [k \in 1..window |-> [n |-> 1, d |-> window]]

\* sum over j in lo..hi of x[j] * w[k - j + 1]; the sum is exact, so it is
\* split in halves to keep the evaluation shallow.
RECURSIVE ConvolveTerm(_, _, _, _, _)
ConvolveTerm(x, w, k, lo, hi) ==
    IF lo > hi THEN RatOfInt(0)
    ELSE IF lo = hi THEN RatMul(RatOfInt(x[lo]), w[k - lo + 1])
    ELSE LET mid == (lo + hi) \div 2
         IN  RatAdd(ConvolveTerm(x, w, k, lo, mid),
                    ConvolveTerm(x, w, k, mid + 1, hi))

\* As ConvolveFull, but a window that reaches before the first sample is
\* averaged over the samples it holds instead of being zero-padded.
ConvolveGrowingWindow(x, w) ==
    [k \in 1..(Len(x) + Len(w) - 1) |->
        LET lo == Max(1, k - Len(w) + 1)
            hi == Min(k, Len(x))
            held == hi - lo + 1
            sum == ConvolveTerm(x, w, k, lo, hi)
        IN  IF k < Len(w) THEN Rat(sum.n * Len(w), sum.d * held) ELSE RatNorm(sum)]

\* np.convolve(x, w, 'full'): Len(x) + Len(w) - 1 samples, the input taken
\* as zero outside its own indices.
ConvolveFull(x, w) ==
    [k \in 1..(Len(x) + Len(w) - 1) |->
        RatNorm(ConvolveTerm(x, w, k, Max(1, k - Len(w) + 1), Min(k, Len(x))))]

\* As TakeFirst without the cut.
TakeAll(a, n) == a

\* a[:n]
TakeFirst(a, n) == SubSeq(a, 1, Min(n, Len(a)))

\* np.zeros_like(a)
ZerosLike(a) == [i \in 1..Len(a) |-> 0]

\* As SetWhereCrossedAbove with <= and >= for < and >.
SetWhereTouchedAbove(results, p, q, v) ==
    [i \in 1..Len(results) |->
        IF i >= 2 /\ ~RatGreater(p[i - 1], q[i - 1]) /\ ~RatLess(p[i], q[i])
        THEN v ELSE results[i]]

\* results[1:][np.logical_and(p[:-1] < q[:-1], p[1:] > q[1:])] = v
SetWhereCrossedAbove(results, p, q, v) ==
    [i \in 1..Len(results) |->
        IF i >= 2 /\ RatLess(p[i - 1], q[i - 1]) /\ RatGreater(p[i], q[i])
        THEN v ELSE results[i]]

\* As SetWhereCrossedBelow with >= and <= for > and <.
SetWhereTouchedBelow(results, p, q, v) ==
    [i \in 1..Len(results) |->
        IF i >= 2 /\ ~RatLess(p[i - 1], q[i - 1]) /\ ~RatGreater(p[i], q[i])
        THEN v ELSE results[i]]

\* results[1:][np.logical_and(p[:-1] > q[:-1], p[1:] < q[1:])] = v
SetWhereCrossedBelow(results, p, q, v) ==
    [i \in 1..Len(results) |->
        IF i >= 2 /\ RatGreater(p[i - 1], q[i - 1]) /\ RatLess(p[i], q[i])
        THEN v ELSE results[i]]

\* As ZeroPrefix, clearing one sample more.
ZeroPrefixOneMore(results, k) ==
    [i \in 1..Len(results) |-> IF i <= k + 1 THEN 0 ELSE results[i]]

\* results[:k] = 0
ZeroPrefix(results, k) ==
    [i \in 1..Len(results) |-> IF i <= k THEN 0 ELSE results[i]]

\* ------------------------------------------------------------ input data
\* A caller's data argument: its Python type, and for the array-like types
\* the element dtype, the samples, and the positions that hold NaN or an
\* infinity (the sample written at such a position is not read).
Data(t, dt, v, nanAt, infAt) ==
    [type |-> t, dtype |-> dt, vals |-> v, nan |-> nanAt, inf |-> infAt]

\* The ndarray an indicator works on.
Array(dt, v, nanAt, infAt) ==
    [dtype |-> dt, vals |-> v, nan |-> nanAt, inf |-> infAt]

\* An ndarray handed on as a data argument.
AsData(arr) == Data("ndarray", arr.dtype, arr.vals, arr.nan, arr.inf)

\* -------------------------------------------------------- class hierarchy
Parents(c) ==
    CASE c = "SimpleMovingAverage" -> {"BaseMovingAverageClass"}
      [] c = "BaseMovingAverageClass" -> {"BaseIndicatorClass"}
      [] c = "MovingAverageCrossover" -> {"BaseIndicatorClass"}
      [] c = "SMA50CrossSMA200" -> {"BaseIndicatorClass"}
      [] OTHER -> {}

RECURSIVE IsSubclass(_, _)
IsSubclass(c, base) ==
    c = base \/ \E p \in Parents(c) : IsSubclass(p, base)

\* ----------------------------------------------------- BaseIndicatorClass
\* _to_numpy: the array for a list, an ndarray or a Series; TypeError else.
ToNumpy(data) ==
    IF data.type \in {"list", "ndarray", "Series"}
    THEN [exc |-> NoError,
          arr |-> Array(data.dtype, data.vals, data.nan, data.inf)]
    ELSE [exc |-> TypeError("Input data must be a list, NumPy array, or Pandas Series"),
          arr |-> Array("none", <<>>, {}, {})]

\* As IsNumberDtype with every dtype let through.
AnyDtype(dt) == TRUE

\* np.issubdtype(dtype, np.number)
IsNumberDtype(dt) == dt \in {"int64", "float64"}

\* As WindowTooLarge with the comparison left out.
WindowNeverTooLarge(window_size, n) == FALSE

\* The window checks of _handle_common_errors on an array of length n.
WindowTooSmall(window_size) == window_size.val <= 0
WindowTooLarge(window_size, n) == window_size.val > n

\* _handle_common_errors: the first check that fails, or NoError.  np.isnan
\* itself raises TypeError on an array of strings.
HandleCommonErrors(numpy_data, window_size) ==
    IF Len(numpy_data.vals) < 1
    THEN ValueError("Input Data contains no values.")
    ELSE IF numpy_data.dtype = "str"
    THEN TypeError("ufunc 'isnan' not supported for the input types")
    ELSE IF numpy_data.nan # {}
    THEN ValueError("Input data contains NaN values.")
    ELSE IF numpy_data.inf # {}
    THEN ValueError("Input data contains infinite values.")
    ELSE IF ~IsNumberDtype(numpy_data.dtype)
    THEN ValueError("Input data contains non-numeric values.")
    ELSE IF window_size = NoneArg
    THEN NoError
    ELSE IF window_size.type # "int"
    THEN TypeError("Window size must be an integer.")
    ELSE IF WindowTooSmall(window_size)
    THEN ValueError("Window size must be a positive integer.")
    ELSE IF WindowTooLarge(window_size, Len(numpy_data.vals))
    THEN ValueError("Window size cannot be greater than the length of the input data.")
    ELSE NoError

\* ---------------------------------------------------- SimpleMovingAverage
\* As SMACalculation with np.convolve's 'same' mode: the n samples of the
\* full convolution centred on the input.
SMACalculationSameMode(numpy_data, window) ==
    LET full == ConvolveFull(numpy_data.vals, UniformWeights(window.val))
        skip == (window.val - 1) \div 2
    IN  SubSeq(full, skip + 1, skip + Len(numpy_data.vals))

\* _calculation: np.convolve(data, weights, 'full')[:len(data)]
SMACalculation(numpy_data, window) ==
    TakeFirst(ConvolveFull(numpy_data.vals, UniformWeights(window.val)),
              Len(numpy_data.vals))

\* SimpleMovingAverage(data, window), run to its end: the exception raised
\* (or NoError) and the object's fields.
SMAConstruct(data, window) ==
    LET conv == ToNumpy(data)
        e == HandleCommonErrors(conv.arr, window)
    IN  IF conv.exc # NoError
        THEN [exc |-> conv.exc, _output_data |-> None, _window |-> window]
        ELSE IF e # NoError
        THEN [exc |-> e, _output_data |-> None, _window |-> window]
        ELSE [exc |-> NoError,
              _output_data |-> Some(SMACalculation(conv.arr, window)),
              _window |-> window]

\* ------------------------------------------------- MovingAverageCrossover
\* A component mapping {"ma_class": ..., "window": ...}; ma_class is NoClass
\* when the mapping has no such key.
NoClass == "None"
Component(c, w) == [ma_class |-> c, window |-> w]

\* d.pop("ma_class", None): the value returned and the mapping left behind.
PopMaClass(d) == [value |-> d.ma_class, left |-> [d EXCEPT !.ma_class = NoClass]]

\* As HandleAdditionalErrors with the ma2 check left out.
HandleAdditionalErrorsFirstOnly(ma1, ma2) ==
    IF ma1 = NoClass
    THEN TypeError("issubclass() arg 1 must be a class")
    ELSE IF ~IsSubclass(ma1, "BaseMovingAverageClass")
    THEN TypeError("ma1 must be a subclass of BaseMovingAverageClass")
    ELSE NoError

\* _handle_additional_errors; issubclass itself raises TypeError when its
\* first argument is None.
HandleAdditionalErrors(ma1, ma2) ==
    IF ma1 = NoClass
    THEN TypeError("issubclass() arg 1 must be a class")
    ELSE IF ~IsSubclass(ma1, "BaseMovingAverageClass")
    THEN TypeError("ma1 must be a subclass of BaseMovingAverageClass")
    ELSE IF ma2 = NoClass
    THEN TypeError("issubclass() arg 1 must be a class")
    ELSE IF ~IsSubclass(ma2, "BaseMovingAverageClass")
    THEN TypeError("ma2 must be a subclass of BaseMovingAverageClass")
    ELSE NoError

\* return_window(), with None read as 0
WindowOrZero(ma) == IF ma._window = NoneArg THEN 0 ELSE ma._window.val

\* As WarmUp with the shorter window.
WarmUpShorter(ma1_window, ma2_window) == Min(ma1_window, ma2_window)

\* As WarmUp, one sample short.
WarmUpOneLess(ma1_window, ma2_window) == Max(ma1_window, ma2_window) - 1

\* The prefix of the signal that is cleared: results[:max(w1, w2)] = 0
WarmUp(ma1_window, ma2_window) == Max(ma1_window, ma2_window)

\* Lines 82-100 of _calculation: the signal from the two moving averages.
CrossoverSignal(numpy_data, ma1_values, ma2_values, ma1_window, ma2_window) ==
    LET zeros == ZerosLike(numpy_data.vals)
        ups == SetWhereCrossedAbove(zeros, ma1_values, ma2_values, 1)
        downs == SetWhereCrossedBelow(ups, ma1_values, ma2_values, 2)
    IN  ZeroPrefix(downs, WarmUp(ma1_window, ma2_window))

\* self.__ma1(self.__numpy_data, **self.__ma1_args): the only class that
\* passes _handle_additional_errors is SimpleMovingAverage.
Instantiate(ma_class, numpy_data, ma_args) ==
    SMAConstruct(AsData(numpy_data), ma_args.window)

\* _calculation: both components are built in turn, the first failure is
\* raised; made lists the components whose constructor was entered.
MACCalculation(numpy_data, ma1c, ma2c, ma1_args, ma2_args) ==
    LET ma1 == Instantiate(ma1c, numpy_data, ma1_args)
        ma2 == Instantiate(ma2c, numpy_data, ma2_args)
    IN  IF ma1.exc # NoError
        THEN [exc |-> ma1.exc, _output_data |-> None, made |-> <<"ma1">>]
        ELSE IF ma2.exc # NoError
        THEN [exc |-> ma2.exc, _output_data |-> None, made |-> <<"ma1", "ma2">>]
        ELSE [exc |-> NoError,
              _output_data |->
                  Some(CrossoverSignal(numpy_data,
                                       ma1._output_data.val, ma2._output_data.val,
                                       WindowOrZero(ma1), WindowOrZero(ma2))),
              made |-> <<"ma1", "ma2">>]

\* MovingAverageCrossover(data, ma1=..., ma2=...), run to its end: the
\* exception raised (or NoError), the output, and the two mappings as the
\* constructor leaves them.
MACConstruct(data, ma1_map, ma2_map) ==
    LET conv == ToNumpy(data)
        p1 == PopMaClass(ma1_map)
        p2 == PopMaClass(ma2_map)
        e1 == HandleCommonErrors(conv.arr, NoneArg)
        e2 == HandleAdditionalErrors(p1.value, p2.value)
        calc == MACCalculation(conv.arr, p1.value, p2.value, p1.left, p2.left)
    IN  IF conv.exc # NoError
        THEN [exc |-> conv.exc, _output_data |-> None,
              ma1 |-> ma1_map, ma2 |-> ma2_map]
        ELSE IF e1 # NoError
        THEN [exc |-> e1, _output_data |-> None, ma1 |-> p1.left, ma2 |-> p2.left]
        ELSE IF e2 # NoError
        THEN [exc |-> e2, _output_data |-> None, ma1 |-> p1.left, ma2 |-> p2.left]
        ELSE [exc |-> calc.exc, _output_data |-> calc._output_data,
              ma1 |-> p1.left, ma2 |-> p2.left]

\* ------------------------------------------------------- SMA50CrossSMA200
\* The func_args literal of SMA50CrossSMA200._calculation.
\* As PresetArgs with the two windows the other way round.
PresetArgsSwapped ==
    [ma1 |-> Component("SimpleMovingAverage", IntArg(Win200)),
     ma2 |-> Component("SimpleMovingAverage", IntArg(Win50))]

PresetArgs ==
    [ma1 |-> Component("SimpleMovingAverage", IntArg(Win50)),
     ma2 |-> Component("SimpleMovingAverage", IntArg(Win200))]

\* SMA50CrossSMA200._calculation: the crossover of the two fixed windows,
\* read back through to_np_array().
PresetCalculation(data) ==
    LET func == MACConstruct(data, PresetArgs.ma1, PresetArgs.ma2)
    IN  [exc |-> func.exc, _output_data |-> func._output_data]

\* ----------------------------------------------------------- output views
\* What a view hands to its caller: the exception it raised or the value it
\* returned (None when it returned Python's None), and whether that value
\* is the very array held in _output_data (shares) or a copy of it.
Returned(e, v, sh) == [exc |-> e, value |-> v, shares |-> sh]

\* As ToList, handing out the array itself.
ToListShared(out) == Returned(NoError, out, out # None)

\* to_list: self._output_data.tolist().  None has no tolist attribute; an
\* array gives a new list.
ToList(out) ==
    IF out = None
    THEN Returned(AttributeError("'NoneType' object has no attribute 'tolist'"),
                  None, FALSE)
    ELSE Returned(NoError, Some(out.val), FALSE)

\* to_np_array: return self._output_data, the object itself.
ToNpArray(out) == Returned(NoError, out, out # None)

\* to_pd_series: pd.Series(self._output_data).  pd.Series(None) is the
\* empty series.  Whether pd.Series(array) copies the array or wraps it
\* depends on the pandas version installed, which setup.py leaves open.
ToPdSeries(out, wraps) ==
    IF out = None
    THEN Returned(NoError, Some(<<>>), FALSE)
    ELSE Returned(NoError, Some(out.val), wraps)

\* The mappings of the MovingAverageCrossover docstring example.
ExampleArgs ==
    [ma1 |-> Component("SimpleMovingAverage", IntArg(50)),
     ma2 |-> Component("SimpleMovingAverage", IntArg(200))]

\* ------------------------------------------------------------ the caller
\* The series a caller passes: every short list of small integers, some
\* float arrays and labelled series, inputs the checks reject, the worked
\* scenario, and (for the preset) series long enough for a 200 window.
SeriesOfLen(k) == [1..k -> 0..MaxVal]
Series == UNION {SeriesOfLen(k) : k \in 0..MaxLen}

ListInputs == {Data("list", "int64", s, {}, {}) : s \in Series}
ArrayInputs ==
    {Data(t, "float64", s, {}, {}) : t \in {"ndarray", "Series"}, s \in SeriesOfLen(2)}
Flat(k) == [i \in 1..k |-> 0]
NaNInputs ==
    UNION {{Data("list", "float64", Flat(k), {p}, {}) : p \in 1..k} : k \in 1..MaxLen}
InfInputs ==
    UNION {{Data("list", "float64", Flat(k), {}, {p}) : p \in 1..k} : k \in 1..MaxLen}
OddInputs ==
    {Data("ndarray", "bool", Flat(2), {}, {}),
     Data("list", "str", Flat(1), {}, {}),
     Data("dict", "none", <<>>, {}, {})}
Scenario ==
    Data("list", "int64", <<1, 2, 3, 2, 1, 2, 3, 4, 5, 4, 3, 2, 1>>, {}, {})

\* A series on which the window-3 and window-5 averages cross at index 4.
EarlyCross == Data("list", "int64", <<5, 0, 0, 0, 9>>, {}, {})

\* A level series with one sample off the level.
Level(len, at, v) == [i \in 1..len |-> IF i = at THEN v ELSE 1]
LongInputs ==
    {Data("list", "int64", Level(len, Win200 - Win50 + 1, v), {}, {}) :
        len \in (Win200 - 1)..(Win200 + MaxExtra), v \in {0, 2}}

Inputs ==
    ListInputs \cup ArrayInputs \cup NaNInputs \cup InfInputs \cup OddInputs
        \cup {Scenario, EarlyCross}

WindowArgs == {IntArg(w) : w \in (-1)..MaxWin} \cup {FloatArg(2)}

Components ==
    {Component("SimpleMovingAverage", IntArg(w)) : w \in 1..MaxWin}
        \cup {Component("MovingAverageCrossover", IntArg(1)),
              Component(NoClass, IntArg(1))}

NoArgs == [ma1 |-> Component(NoClass, NoneArg), ma2 |-> Component(NoClass, NoneArg)]
NoData == Data("none", "none", <<>>, {}, {})

\* ---------------------------------------------------------------- Analysis
KeyError(m) == [type |-> "KeyError", msg |-> m]
InvalidInstanceError(m) == [type |-> "InvalidInstanceError", msg |-> m]

\* A str passed as a window: its text.
StrArg(s) == [type |-> "str", val |-> 0, text |-> s]

\* str.lower() on the column names in use.
Lower(name) ==
    CASE name = "Close" -> "close"
      [] name = "Open" -> "open"
      [] OTHER -> name

\* f"{window}": the digits of an int, the digits and ".0" of a whole float,
\* a str as it is.
Format(window) ==
    CASE window.type = "int" -> ToString(window.val)
      [] window.type = "float" -> ToString(window.val) \o ".0"
      [] window.type = "str" -> window.text
      [] OTHER -> "None"

\* f"{column}_sma_{window}"
ColumnName(column, window) == column \o "_sma_" \o Format(window)

\* pd.DataFrame()
NoColumns == [c \in {} |-> <<>>]

\* As SetColumn, on a table begun anew.
SetColumnAlone(df, name, series) == [c \in {name} |-> series]

\* df[name] = series
SetColumn(df, name, series) ==
    [c \in DOMAIN df \cup {name} |-> IF c = name THEN series ELSE df[c]]

\* A caller's df argument: its Python type and, for a DataFrame, its
\* columns in order, each a name and a series.
Frame(t, columns) == [type |-> t, columns |-> columns]

\* _input_checks on one column.
InputChecks(name, series) ==
    IF Len(series.vals) < 1
    THEN ValueError("Input Data (" \o name \o ") contains no values.")
    ELSE IF series.nan # {}
    THEN ValueError("Input Data (" \o name \o ") contains NaN values.")
    ELSE IF series.inf # {}
    THEN ValueError("Input Data (" \o name \o ") contains infinite values.")
    ELSE IF ~IsNumberDtype(series.dtype)
    THEN ValueError("Input Data (" \o name \o ") contains non-numeric values.")
    ELSE NoError

\* _data_checks: the first column, in order, that fails its checks.
RECURSIVE DataChecks(_)
DataChecks(columns) ==
    IF columns = <<>> THEN NoError
    ELSE LET e == InputChecks(Lower(Head(columns)[1]), Head(columns)[2])
         IN  IF e # NoError THEN e ELSE DataChecks(Tail(columns))

\* Analysis.__init__: the exception raised, or the input columns under
\* their lower-case names.
AnalysisConstruct(df) ==
    IF df.type # "DataFrame"
    THEN [exc |-> TypeError("Input must be a pandas DataFrame."),
          input_df |-> None]
    ELSE IF DataChecks(df.columns) # NoError
    THEN [exc |-> DataChecks(df.columns), input_df |-> None]
    ELSE [exc |-> NoError,
          input_df |-> Some([c \in {Lower(df.columns[i][1]) : i \in 1..Len(df.columns)} |->
                    LET i == CHOOSE j \in 1..Len(df.columns) :
                                 Lower(df.columns[j][1]) = c
                    IN  df.columns[i][2]])]

\* Analysis.simple_moving_average(window, column) on input columns idf and
\* cached columns adf: the exception raised or the series returned, and
\* the cached columns afterwards.
simple_moving_average(idf, adf, window, column) ==
    LET column_name == ColumnName(column, window)
        Raise(e) == [exc |-> e, value |-> None, analysis_df |-> adf]
    IN  IF column_name \in DOMAIN adf
        THEN [exc |-> NoError, value |-> Some(adf[column_name]),
              analysis_df |-> adf]
        ELSE IF column \notin DOMAIN idf
        THEN Raise(KeyError(column))
        ELSE IF window.type # "int"
        THEN Raise(TypeError("Window must be an integer."))
        ELSE IF window.val <= 0
        THEN Raise(ValueError("Window must be a positive integer."))
        ELSE IF window.val > Len(idf[column].vals)
        THEN Raise(ValueError("Window cannot be greater than the length of the input data."))
        ELSE LET numpy_data == idf[column].vals
                 weights == UniformWeights(window.val)
                 sma == TakeFirst(ConvolveFull(numpy_data, weights),
                                  Len(numpy_data))
                 stored == SetColumn(adf, column_name, sma)
             IN  [exc |-> NoError, value |-> Some(stored[column_name]),
                  analysis_df |-> stored]

\* A mapping passed as ma1 or ma2: the method under "ma_func" ("self" for
\* this instance's simple_moving_average, "other" for another instance's,
\* NoClass for none), and its window and column.
MaArgs(f, w, c) == [ma_func |-> f, window |-> w, column |-> c]
NoMaArgs == MaArgs(NoClass, NoneArg, "")

\* ma_args.pop("ma_func", None)
PopMaFunc(ma_args) ==
    [value |-> ma_args.ma_func, left |-> [ma_args EXCEPT !.ma_func = NoClass]]

\* Lines 218-238 of moving_average_crossover: the signal from the two
\* moving averages.
AnalysisSignal(ma1_values, ma2_values, ma1_window, ma2_window) ==
    LET zeros == ZerosLike(ma1_values)
        ups == SetWhereCrossedAbove(zeros, ma1_values, ma2_values, 1)
        downs == SetWhereCrossedBelow(ups, ma1_values, ma2_values, 2)
    IN  ZeroPrefix(downs, Max(ma1_window, ma2_window))

\* Analysis.moving_average_crossover(ma1=ma1_map, ma2=ma2_map): the
\* exception raised or the series returned, the cached columns afterwards,
\* the caller's two mappings as the call leaves them, and the
\* simple_moving_average calls that returned.
moving_average_crossover(idf, adf, ma1_map, ma2_map) ==
    LET p1 == PopMaFunc(ma1_map)
        p2 == PopMaFunc(ma2_map)
        Raise(e, df, calls) ==
            [exc |-> e, value |-> None, analysis_df |-> df,
             ma1 |-> p1.left, ma2 |-> p2.left, made |-> calls]
        NoSelf == AttributeError("'NoneType' object has no attribute '__self__'")
        Foreign == InvalidInstanceError("Both functions must belong to the same instance as the calling class instance.")
    IN  IF p1.value = NoClass THEN Raise(NoSelf, adf, <<>>)
        ELSE IF p1.value # "self" THEN Raise(Foreign, adf, <<>>)
        ELSE IF p2.value = NoClass THEN Raise(NoSelf, adf, <<>>)
        ELSE IF p2.value # "self" THEN Raise(Foreign, adf, <<>>)
        ELSE
        LET r1 == simple_moving_average(idf, adf, p1.left.window, p1.left.column)
            c1 == [column |-> p1.left.column, window |-> p1.left.window,
                   value |-> r1.value]
        IN  IF r1.exc # NoError THEN Raise(r1.exc, adf, <<>>)
            ELSE
            LET r2 == simple_moving_average(idf, r1.analysis_df,
                                            p2.left.window, p2.left.column)
                c2 == [column |-> p2.left.column, window |-> p2.left.window,
                       value |-> r2.value]
            IN  IF r2.exc # NoError
                THEN Raise(r2.exc, r1.analysis_df, <<c1>>)
                ELSE [exc |-> NoError,
                      value |-> Some(AnalysisSignal(r1.value.val, r2.value.val,
                                        p1.left.window.val, p2.left.window.val)),
                      analysis_df |-> r2.analysis_df,
                      ma1 |-> p1.left, ma2 |-> p2.left, made |-> <<c1, c2>>]

\* The frames a caller passes: two columns of FrameLen samples each, one
\* with a single raised sample and the other its reverse; a frame with a
\* NaN; and a list in place of a frame.
Reverse(s) == [i \in 1..Len(s) |-> s[Len(s) + 1 - i]]
Spike(k, p) == [i \in 1..k |-> IF i = p THEN MaxVal ELSE 0]
Column(v, nanAt) == Data("Series", "int64", v, nanAt, {})
FrameInputs ==
    {Frame("DataFrame", <<<<"close", Column(Spike(FrameLen, p), {})>>,
                          <<"Open", Column(Reverse(Spike(FrameLen, p)), {})>>>>) :
        p \in 1..FrameLen}
    \cup {Frame("DataFrame", <<<<"close", Column(Flat(FrameLen), {})>>,
                               <<"Open", Column(Flat(FrameLen), {1})>>>>),
          Frame("list", <<>>)}

ColumnArgs == {"close", "open", "volume"}
FacadeWindows ==
    {IntArg(w) : w \in 0..(FrameLen + 1)} \cup {FloatArg(1), StrArg("1")}
MaArgsInputs ==
    {MaArgs("self", IntArg(w), "close") : w \in 1..(FrameLen + 1)}
    \cup {MaArgs("self", IntArg(1), "open"),
          MaArgs("other", IntArg(1), "close"),
          MaArgs(NoClass, IntArg(1), "close")}

\* ------------------------------------------------------------------ state
VARIABLES
    pc,         \* where the constructor being run stands
    cls,        \* the class being constructed
    data,       \* the caller's data argument
    window,     \* the caller's window argument (SimpleMovingAverage)
    func_args,  \* the caller's ma1 and ma2 mappings, as they are now
    written,    \* the ma1 and ma2 mappings as the caller wrote them
    self,       \* the fields of the object under construction
    exc,        \* the exception the constructor raised, or NoError
    steps,      \* the constructor steps entered so far, in order
    prev,       \* what the same construction gave the time before, or None
    twin,       \* what the example crossover gave on the same data, or None
    view,       \* the output view the caller took last, as it is now
    input_df,   \* Analysis: the input columns, or None before construction
    analysis_df,\* Analysis: the cached result columns, by column name
    ret,        \* Analysis: the last method call and what it gave
    first       \* Analysis: what the first valid call gave, by (column, window)

indicator == <<pc, cls, data, window, func_args, written, self, exc, steps,
               prev, twin, view>>
facade == <<input_df, analysis_df, ret, first>>
vars == <<indicator, facade>>

\* No view taken yet.
NoView == [name |-> "none", exc |-> NoError, value |-> None,
           shares |-> FALSE, wrote |-> FALSE]

\* The fields right after super().__init__().
Fresh ==
    [_output_data |-> None, _window |-> NoneArg, numpy_data |-> None,
     ma1 |-> NoClass, ma2 |-> NoClass, ma1_args |-> None, ma2_args |-> None,
     data |-> None]

\* No call made yet on the Analysis instance.
NoCall ==
    [op |-> "none", column |-> "", window |-> NoneArg, exc |-> NoError,
     value |-> None, before |-> NoColumns, again |-> FALSE,
     ma1 |-> NoMaArgs, ma2 |-> NoMaArgs]

FacadeInit ==
    /\ input_df = None
    /\ analysis_df = NoColumns
    /\ ret = NoCall
    /\ first = NoColumns

Init ==
    /\ pc = "idle"
    /\ cls = "none"
    /\ data = NoData
    /\ window = NoneArg
    /\ func_args = NoArgs
    /\ written = NoArgs
    /\ self = Fresh
    /\ exc = NoError
    /\ steps = <<>>
    /\ prev = None
    /\ twin = None
    /\ view = NoView
    /\ FacadeInit

\* The caller writes its arguments and calls a constructor.
Enter(c, d, w, fa) ==
    /\ pc' = "call"
    /\ cls' = c
    /\ data' = d
    /\ window' = w
    /\ func_args' = fa
    /\ written' = fa
    /\ self' = Fresh
    /\ exc' = NoError
    /\ steps' = <<>>
    /\ prev' = None
    /\ twin' = None
    /\ view' = NoView
    /\ UNCHANGED facade

CallSimpleMovingAverage ==
    /\ pc = "idle"
    /\ \E d \in Inputs, w \in WindowArgs :
        Enter("SimpleMovingAverage", d, w, NoArgs)

CallMovingAverageCrossover ==
    /\ pc = "idle"
    /\ \E d \in Inputs, c1 \in Components, c2 \in Components :
        Enter("MovingAverageCrossover", d, NoneArg, [ma1 |-> c1, ma2 |-> c2])

CallSMA50CrossSMA200 ==
    /\ pc = "idle"
    /\ \E d \in Inputs \cup LongInputs :
        Enter("SMA50CrossSMA200", d, NoneArg, NoArgs)

\* The caller writes the mappings of the docstring example and constructs
\* the crossover with them.
CallCrossoverExample ==
    /\ pc = "idle"
    /\ \E d \in Inputs \cup LongInputs :
        Enter("MovingAverageCrossover", d, NoneArg, ExampleArgs)

\* The caller constructs an indicator class that implements _calculation
\* and inherits BaseIndicatorClass.__init__ as it is.
CallBaseIndicator ==
    /\ pc = "idle"
    /\ Enter("BaseIndicatorClass", NoData, NoneArg, NoArgs)

\* What a finished construction shows its caller.
Outcome == [exc |-> exc, _output_data |-> self._output_data]

\* After the example crossover the caller constructs SMA50CrossSMA200 on
\* the same data.
CallPresetOnSame ==
    /\ pc \in {"done", "raised"}
    /\ cls = "MovingAverageCrossover"
    /\ written = ExampleArgs
    /\ prev = None
    /\ twin' = Some(Outcome)
    /\ cls' = "SMA50CrossSMA200"
    /\ func_args' = NoArgs
    /\ written' = NoArgs
    /\ pc' = "call"
    /\ self' = Fresh
    /\ exc' = NoError
    /\ steps' = <<>>
    /\ view' = NoView
    /\ UNCHANGED <<data, window, prev>>
    /\ UNCHANGED facade

\* The caller constructs the same indicator again, with the same data and
\* the same parameters: either the very mappings it passed before, or
\* (rewrite) mappings written afresh with the same contents.
CallAgain ==
    /\ pc \in {"done", "raised"}
    /\ prev = None
    /\ \E rewrite \in BOOLEAN :
        /\ rewrite => cls = "MovingAverageCrossover"
        /\ func_args' = IF rewrite THEN written ELSE func_args
    /\ prev' = Some(Outcome)
    /\ pc' = "call"
    /\ self' = Fresh
    /\ exc' = NoError
    /\ steps' = <<>>
    /\ view' = NoView
    /\ UNCHANGED <<cls, data, window, written, twin>>
    /\ UNCHANGED facade

\* The caller lets go of the indicator and of its arguments.
Forget ==
    /\ pc \in {"done", "raised", "constructed", "viewed", "wrote"}
    /\ pc' = "idle"
    /\ cls' = "none"
    /\ data' = NoData
    /\ window' = NoneArg
    /\ func_args' = NoArgs
    /\ written' = NoArgs
    /\ self' = Fresh
    /\ exc' = NoError
    /\ steps' = <<>>
    /\ prev' = None
    /\ twin' = None
    /\ view' = NoView
    /\ UNCHANGED facade

\* A constructor step ends: with exception e raised, or at pc next.
Step(name, e, next, newSelf) ==
    /\ steps' = Append(steps, name)
    /\ self' = newSelf
    /\ exc' = e
    /\ pc' = IF e # NoError THEN "raised" ELSE next

\* ---------------------------------------------------- SimpleMovingAverage
\* __init__, lines 36-38: the window is stored, the data converted.
SMA_Init ==
    /\ pc = "call"
    /\ cls = "SimpleMovingAverage"
    /\ LET conv == ToNumpy(data)
       IN  Step("normalize", conv.exc, "normalized",
                IF conv.exc # NoError
                THEN [Fresh EXCEPT !._window = window]
                ELSE [Fresh EXCEPT !._window = window,
                                   !.numpy_data = Some(conv.arr)])
    /\ UNCHANGED <<cls, data, window, func_args, written, prev, twin, view>>
    /\ UNCHANGED facade

\* __init__, line 39
SMA_HandleCommonErrors ==
    /\ pc = "normalized"
    /\ cls = "SimpleMovingAverage"
    /\ Step("validate", HandleCommonErrors(self.numpy_data.val, window),
            "validated", self)
    /\ UNCHANGED <<cls, data, window, func_args, written, prev, twin, view>>
    /\ UNCHANGED facade

\* __init__, line 40
SMA_Calculation ==
    /\ pc = "validated"
    /\ cls = "SimpleMovingAverage"
    /\ Step("calculate", NoError, "done",
            [self EXCEPT !._output_data =
                Some(SMACalculation(self.numpy_data.val, self._window))])
    /\ UNCHANGED <<cls, data, window, func_args, written, prev, twin, view>>
    /\ UNCHANGED facade

\* ------------------------------------------------- MovingAverageCrossover
\* __init__, lines 50-55: the mappings are taken from kwargs, the data
\* converted, and ma_class popped out of each mapping.  kwargs holds the
\* caller's own mapping objects, so the pop shows in func_args.
MAC_Init ==
    /\ pc = "call"
    /\ cls = "MovingAverageCrossover"
    /\ LET conv == ToNumpy(data)
           p1 == PopMaClass(func_args.ma1)
           p2 == PopMaClass(func_args.ma2)
       IN  IF conv.exc # NoError
           THEN /\ Step("normalize", conv.exc, "normalized",
                        [Fresh EXCEPT !.ma1_args = Some(func_args.ma1),
                                      !.ma2_args = Some(func_args.ma2)])
                /\ UNCHANGED func_args
           ELSE /\ Step("normalize", NoError, "normalized",
                        [Fresh EXCEPT !.ma1_args = Some(p1.left),
                                      !.ma2_args = Some(p2.left),
                                      !.numpy_data = Some(conv.arr),
                                      !.ma1 = p1.value,
                                      !.ma2 = p2.value])
                /\ func_args' = [ma1 |-> p1.left, ma2 |-> p2.left]
    /\ UNCHANGED <<cls, data, window, written, prev, twin, view>>
    /\ UNCHANGED facade

\* __init__, line 56
MAC_HandleCommonErrors ==
    /\ pc = "normalized"
    /\ cls = "MovingAverageCrossover"
    /\ Step("validate", HandleCommonErrors(self.numpy_data.val, NoneArg),
            "validated", self)
    /\ UNCHANGED <<cls, data, window, func_args, written, prev, twin, view>>
    /\ UNCHANGED facade

\* __init__, line 57
MAC_HandleAdditionalErrors ==
    /\ pc = "validated"
    /\ cls = "MovingAverageCrossover"
    /\ Step("check_components", HandleAdditionalErrors(self.ma1, self.ma2),
            "checked", self)
    /\ UNCHANGED <<cls, data, window, func_args, written, prev, twin, view>>
    /\ UNCHANGED facade

\* __init__, line 58
MAC_Calculation ==
    /\ pc = "checked"
    /\ cls = "MovingAverageCrossover"
    /\ LET calc == MACCalculation(self.numpy_data.val, self.ma1, self.ma2,
                                  self.ma1_args.val, self.ma2_args.val)
       IN  /\ steps' = steps \o <<"calculate">> \o calc.made
           /\ self' = [self EXCEPT !._output_data = calc._output_data]
           /\ exc' = calc.exc
           /\ pc' = IF calc.exc # NoError THEN "raised" ELSE "done"
    /\ UNCHANGED <<cls, data, window, func_args, written, prev, twin, view>>
    /\ UNCHANGED facade

\* ------------------------------------------------------- SMA50CrossSMA200
\* __init__, lines 27-28: the data is kept as it came.
Preset_Init ==
    /\ pc = "call"
    /\ cls = "SMA50CrossSMA200"
    /\ Step("keep", NoError, "kept", [Fresh EXCEPT !.data = Some(data)])
    /\ UNCHANGED <<cls, data, window, func_args, written, prev, twin, view>>
    /\ UNCHANGED facade

\* __init__, line 29
Preset_Calculation ==
    /\ pc = "kept"
    /\ cls = "SMA50CrossSMA200"
    /\ LET calc == PresetCalculation(self.data.val)
       IN  Step("calculate", calc.exc, "done",
                [self EXCEPT !._output_data = calc._output_data])
    /\ UNCHANGED <<cls, data, window, func_args, written, prev, twin, view>>
    /\ UNCHANGED facade

\* ----------------------------------------------------- BaseIndicatorClass
\* __init__, lines 50-55: _output_data is None, and nothing calculates.
Base_Init ==
    /\ pc = "call"
    /\ cls = "BaseIndicatorClass"
    /\ Step("init", NoError, "constructed", Fresh)
    /\ UNCHANGED <<cls, data, window, func_args, written, prev, twin, view>>
    /\ UNCHANGED facade

\* The caller holds an indicator and takes an output view of it: pc is
\* "viewed" from then on.
Take(name, r) ==
    /\ pc \in {"done", "constructed", "viewed"}
    /\ pc' = "viewed"
    /\ view' = [name |-> name, exc |-> r.exc, value |-> r.value,
                shares |-> r.shares, wrote |-> FALSE]
    /\ UNCHANGED <<cls, data, window, func_args, written, self, exc,
                   steps, prev, twin>>
    /\ UNCHANGED facade

To_List == Take("to_list", ToList(self._output_data))

To_Np_Array == Take("to_np_array", ToNpArray(self._output_data))

To_Pd_Series ==
    \E wraps \in BOOLEAN :
        /\ wraps => self._output_data # None
        /\ Take("to_pd_series", ToPdSeries(self._output_data, wraps))

\* The value a caller writes into a view: one the indicator never puts out.
Mark(c) ==
    IF c = "SimpleMovingAverage" THEN RatOfInt(MaxVal + 1) ELSE MaxVal + 1

\* The caller writes into the value a view returned, at one of the first
\* MaxWrite positions, and is done with the indicator (pc "wrote").  A
\* value that is the array held in _output_data takes the write there as
\* well.
Write_View ==
    /\ pc = "viewed"
    /\ view.exc = NoError
    /\ view.value # None
    /\ \E p \in 1..Min(Len(view.value.val), MaxWrite) :
        LET after == [view.value.val EXCEPT ![p] = Mark(cls)]
        IN  /\ view' = [view EXCEPT !.value = Some(after), !.wrote = TRUE]
            /\ self' = IF view.shares
                       THEN [self EXCEPT !._output_data = Some(after)]
                       ELSE self
    /\ pc' = "wrote"
    /\ UNCHANGED <<cls, data, window, func_args, written, exc, steps, prev,
                   twin>>
    /\ UNCHANGED facade

Next ==
    \/ CallSimpleMovingAverage
    \/ CallCrossoverExample
    \/ CallBaseIndicator
    \/ CallPresetOnSame
    \/ Base_Init
    \/ To_List
    \/ To_Np_Array
    \/ To_Pd_Series
    \/ Write_View
    \/ CallMovingAverageCrossover
    \/ CallSMA50CrossSMA200
    \/ CallAgain
    \/ Forget
    \/ SMA_Init
    \/ SMA_HandleCommonErrors
    \/ SMA_Calculation
    \/ MAC_Init
    \/ MAC_HandleCommonErrors
    \/ MAC_HandleAdditionalErrors
    \/ MAC_Calculation
    \/ Preset_Init
    \/ Preset_Calculation

Spec == Init /\ [][Next]_vars

\* ---------------------------------------------------------------- Analysis
\* What a simple_moving_average call that returned for an integer window
\* adds to the first results on record.
Remember(f, call) ==
    LET key == <<call.column, call.window.val>>
    IN  IF call.window.type # "int" \/ key \in DOMAIN f THEN f
        ELSE [k \in DOMAIN f \cup {key} |->
                IF k = key THEN call.value.val ELSE f[k]]

RECURSIVE RememberAll(_, _)
RememberAll(f, calls) ==
    IF calls = <<>> THEN f
    ELSE RememberAll(Remember(f, Head(calls)), Tail(calls))

\* The caller constructs an Analysis on a frame.
Analysis_Init ==
    /\ input_df = None
    /\ \E df \in FrameInputs :
        LET made == AnalysisConstruct(df)
        IN  /\ input_df' = made.input_df
            /\ ret' = [NoCall EXCEPT !.op = "Analysis", !.exc = made.exc]
    /\ analysis_df' = NoColumns
    /\ first' = NoColumns
    /\ UNCHANGED indicator

\* The caller calls simple_moving_average on its Analysis.
Analysis_SimpleMovingAverage ==
    /\ input_df # None
    /\ \E w \in FacadeWindows, c \in ColumnArgs :
        LET r == simple_moving_average(input_df.val, analysis_df, w, c)
            call == [column |-> c, window |-> w, value |-> r.value]
        IN  /\ analysis_df' = r.analysis_df
            /\ ret' = [NoCall EXCEPT !.op = "simple_moving_average",
                                     !.column = c, !.window = w,
                                     !.exc = r.exc, !.value = r.value,
                                     !.before = analysis_df,
                                     !.again = w.type = "int"
                                               /\ <<c, w.val>> \in DOMAIN first]
            /\ first' = IF r.exc = NoError THEN Remember(first, call) ELSE first
    /\ UNCHANGED input_df
    /\ UNCHANGED indicator

\* The caller calls moving_average_crossover on its Analysis.
Analysis_MovingAverageCrossover ==
    /\ input_df # None
    /\ \E m1 \in MaArgsInputs, m2 \in MaArgsInputs :
        LET r == moving_average_crossover(input_df.val, analysis_df, m1, m2)
        IN  /\ analysis_df' = r.analysis_df
            /\ ret' = [NoCall EXCEPT !.op = "moving_average_crossover",
                                     !.exc = r.exc, !.value = r.value,
                                     !.before = analysis_df,
                                     !.ma1 = r.ma1, !.ma2 = r.ma2]
            /\ first' = RememberAll(first, r.made)
    /\ UNCHANGED input_df
    /\ UNCHANGED indicator

\* The caller lets go of its Analysis.
Analysis_Forget ==
    /\ input_df # None
    /\ input_df' = None
    /\ analysis_df' = NoColumns
    /\ ret' = NoCall
    /\ first' = NoColumns
    /\ UNCHANGED indicator

FacadeNext ==
    \/ Analysis_Init
    \/ Analysis_SimpleMovingAverage
    \/ Analysis_MovingAverageCrossover
    \/ Analysis_Forget

FacadeSpec == Init /\ [][FacadeNext]_vars

\* ------------------------------------------------------------ properties
\* x[lo] + ... + x[hi], split in halves to keep the evaluation shallow.
RECURSIVE SumRange(_, _, _)
SumRange(x, lo, hi) ==
    IF lo > hi THEN 0
    ELSE IF lo = hi THEN x[lo]
    ELSE LET mid == (lo + hi) \div 2
         IN  SumRange(x, lo, mid) + SumRange(x, mid + 1, hi)

\* The series checks pass on d.
ValidData(d) ==
    /\ d.type \in {"list", "ndarray", "Series"}
    /\ Len(d.vals) >= 1
    /\ d.dtype \in {"int64", "float64"}
    /\ d.nan = {}
    /\ d.inf = {}

Built(c) == cls = c /\ pc = "done"
Output == self._output_data.val
Has(seq, name) == \E i \in 1..Len(seq) : seq[i] = name

\* C1: on a valid series with an integer window 1 <= w <= n the
\* SimpleMovingAverage is constructed, and it holds at every index i >= w-1
\* (position i+1 >= w here) the mean of the w samples ending there.
C1_TrailingMean ==
    /\ (/\ cls = "SimpleMovingAverage"
        /\ ValidData(data)
        /\ window.type = "int"
        /\ 1 <= window.val
        /\ window.val <= Len(data.vals)) => pc # "raised"
    /\ Built("SimpleMovingAverage") =>
        \A k \in 1..Len(data.vals) :
            k >= window.val =>
                Output[k] = Rat(SumRange(data.vals, k - window.val + 1, k), window.val)

C1_Witness ==
    /\ Built("SimpleMovingAverage")
    /\ window.val = 2
    /\ data.vals = <<1, 0, 2>>
    /\ Output[3] = Rat(1, 1)

\* C2 as claimed: at every index i < w-1 (position k < w) the output is the
\* mean of the first i+1 samples, divided by the number of samples present.
C2_PartialWindowMean ==
    Built("SimpleMovingAverage") =>
        \A k \in 1..Len(data.vals) :
            k < window.val => Output[k] = Rat(SumRange(data.vals, 1, k), k)

\* C2 as amended: at every index i < w-1 the output is the sum of the first
\* i+1 samples divided by the window w.
C2_PartialSumOverWindow ==
    Built("SimpleMovingAverage") =>
        \A k \in 1..Len(data.vals) :
            k < window.val => Output[k] = Rat(SumRange(data.vals, 1, k), window.val)

C2_Witness ==
    /\ Built("SimpleMovingAverage")
    /\ window.val = 3
    /\ data.vals = <<2, 1, 0>>
    /\ Output[1] = Rat(2, 3)
    /\ Output[2] = Rat(1, 1)

\* C3: the output of every constructed indicator is as long as its input.
C3_LengthPreserved ==
    pc = "done" => Len(Output) = Len(data.vals)

C3_Witness ==
    /\ Built("SimpleMovingAverage")
    /\ window.val = 3
    /\ Len(data.vals) = 3
    /\ Len(Output) = 3

\* The two component outputs and windows of the crossover under construction.
CompA == SMACalculation(self.numpy_data.val, self.ma1_args.val.window)
CompB == SMACalculation(self.numpy_data.val, self.ma2_args.val.window)
WinA == self.ma1_args.val.window.val
WinB == self.ma2_args.val.window.val

\* C4: the signal is 0 at index 0 and, at every index i >= max(wa, wb), is
\* 1 exactly on a strict upward cross, 2 exactly on a strict downward cross
\* and 0 otherwise (position k = i+1 here).
C4_CrossingRule ==
    Built("MovingAverageCrossover") =>
        /\ Output[1] = 0
        /\ \A k \in 2..Len(Output) :
            k > Max(WinA, WinB) =>
                LET up == RatLess(CompA[k - 1], CompB[k - 1])
                              /\ RatGreater(CompA[k], CompB[k])
                    down == RatGreater(CompA[k - 1], CompB[k - 1])
                              /\ RatLess(CompA[k], CompB[k])
                IN  /\ Output[k] = 1 <=> up
                    /\ Output[k] = 2 <=> down
                    /\ Output[k] = 0 <=> ~up /\ ~down
                    /\ (CompA[k - 1] = CompB[k - 1] \/ CompA[k] = CompB[k])
                           => Output[k] = 0

C4_Witness ==
    /\ Built("MovingAverageCrossover")
    /\ \E k \in 2..Len(Output) : Output[k] = 1
    /\ \E k \in 2..Len(Output) : Output[k] = 2
    /\ \E k \in 2..Len(Output) :
            k > Max(WinA, WinB) /\ CompA[k] = CompB[k] /\ CompA[k - 1] # CompB[k - 1]

\* C5: the signal is 0 at every index below max(wa, wb).
C5_WarmUpSuppressed ==
    Built("MovingAverageCrossover") =>
        \A k \in 1..Len(Output) : k <= Max(WinA, WinB) => Output[k] = 0

\* Windows 3 and 5, and a cross of the two averages below index 5.
C5_Witness ==
    /\ Built("MovingAverageCrossover")
    /\ data = EarlyCross
    /\ WinA = 3
    /\ WinB = 5
    /\ \E k \in 2..5 :
            /\ RatLess(CompA[k - 1], CompB[k - 1])
            /\ RatGreater(CompA[k], CompB[k])
    /\ \A k \in 1..5 : Output[k] = 0

\* C6: the crossover built with the two components' roles swapped has 2
\* where this one has 1, 1 where it has 2, and 0 where it has 0.
C6_SwapSymmetry ==
    Built("MovingAverageCrossover") =>
        LET swapped == MACConstruct(data, written.ma2, written.ma1)
        IN  /\ swapped.exc = NoError
            /\ Len(swapped._output_data.val) = Len(Output)
            /\ \A k \in 1..Len(Output) :
                /\ Output[k] = 1 <=> swapped._output_data.val[k] = 2
                /\ Output[k] = 2 <=> swapped._output_data.val[k] = 1
                /\ Output[k] = 0 <=> swapped._output_data.val[k] = 0

C6_Witness ==
    /\ Built("MovingAverageCrossover")
    /\ WinA # WinB
    /\ \E k \in 1..Len(Output) : Output[k] = 1
    /\ \E k \in 1..Len(Output) : Output[k] = 2

\* C7: on data that is otherwise valid a window of 0, a negative window and
\* a window above len(data) end the construction with their window error,
\* and data holding a NaN ends it with the NaN error; the calculation step
\* is not entered, the window is stored as passed, and no output is set.
C7_BoundaryRejection ==
    (cls = "SimpleMovingAverage" /\ pc \in {"validated", "done", "raised"}) =>
        LET aborted ==
                /\ pc = "raised"
                /\ ~Has(steps, "calculate")
                /\ self._window = window
                /\ self._output_data = None
        IN  /\ (ValidData(data) /\ window.type = "int" /\ window.val <= 0) =>
                /\ aborted
                /\ exc = ValueError("Window size must be a positive integer.")
            /\ (ValidData(data) /\ window.type = "int" /\ window.val > Len(data.vals)) =>
                /\ aborted
                /\ exc = ValueError("Window size cannot be greater than the length of the input data.")
            /\ (data.type \in {"list", "ndarray", "Series"} /\ data.nan # {}) =>
                /\ aborted
                /\ exc = ValueError("Input data contains NaN values.")

C7_Witness ==
    /\ cls = "SimpleMovingAverage"
    /\ pc = "raised"
    /\ ValidData(data)
    /\ window = IntArg(Len(data.vals) + 1)
    /\ exc = ValueError("Window size cannot be greater than the length of the input data.")

\* C8: when a construction has yielded an output series, constructing the
\* same indicator again with the same data and the same parameters (for the
\* crossover: the very same ma1 and ma2 mappings, or mappings written anew
\* with the same contents) yields the same output series.
C8_SameTwice ==
    (pc \in {"done", "raised"} /\ prev # None /\ prev.val.exc = NoError) =>
        Outcome = prev.val

\* C9: on the scenario series with windows 1 and 3 the signal is 0 at
\* indices 0, 1, 2 and is 2 at indices 3 and 9, where the window-1 average
\* (3 then 2; 5 then 4) falls from above the window-3 average (2 then 7/3;
\* 4 then 13/3) to below it.
C9_Scenario ==
    (Built("MovingAverageCrossover") /\ data = Scenario /\ WinA = 1 /\ WinB = 3) =>
        /\ Output[1] = 0 /\ Output[2] = 0 /\ Output[3] = 0
        /\ CompA[3] = Rat(3, 1) /\ CompB[3] = Rat(2, 1)
        /\ CompA[4] = Rat(2, 1) /\ CompB[4] = Rat(7, 3)
        /\ Output[4] = 2
        /\ CompA[9] = Rat(5, 1) /\ CompB[9] = Rat(4, 1)
        /\ CompA[10] = Rat(4, 1) /\ CompB[10] = Rat(13, 3)
        /\ Output[10] = 2

C9_Witness ==
    /\ Built("MovingAverageCrossover")
    /\ data = Scenario
    /\ WinA = 1
    /\ WinB = 3
    /\ Output = <<0, 0, 0, 2, 0, 1, 0, 0, 0, 2, 0, 0, 0>>

\* The class a mapping named when the constructor popped it.
IsMovingAverage(c) == c # NoClass /\ IsSubclass(c, "BaseMovingAverageClass")

\* C10: on data that passes the series checks, a crossover whose ma1 or ma2
\* class is missing or is no moving-average class never gets past the
\* component check: it ends with TypeError right after the data checks,
\* before a component is built, and with no output.
C10_ComponentRejected ==
    (/\ cls = "MovingAverageCrossover"
     /\ pc \notin {"call", "normalized", "validated"}
     /\ ValidData(data)
     /\ ~(IsMovingAverage(self.ma1) /\ IsMovingAverage(self.ma2))) =>
        /\ pc = "raised"
        /\ exc.type = "TypeError"
        /\ steps = <<"normalize", "validate", "check_components">>
        /\ self._output_data = None

C10_Witness ==
    /\ cls = "MovingAverageCrossover"
    /\ pc = "raised"
    /\ ValidData(data)
    /\ self.ma1 = "SimpleMovingAverage"
    /\ self.ma2 = "MovingAverageCrossover"
    /\ exc = TypeError("ma2 must be a subclass of BaseMovingAverageClass")

\* --------------------------------------------------------- output views
\* C11: a view taken of an indicator whose output is unset fails with an
\* error instead of returning a value.
C11_UnsetViewsFail ==
    (view.name # "none" /\ self._output_data = None) => view.exc # NoError

\* ---------------------------------------------------------------- Analysis
\* C12: a simple_moving_average call that repeats, for the same column and
\* the same valid window, a call this Analysis has answered before (by
\* itself or inside moving_average_crossover) returns the series the first
\* such call returned, and leaves analysis_df as it was.
C12_CachedRepeat ==
    (ret.op = "simple_moving_average" /\ ret.again) =>
        /\ ret.exc = NoError
        /\ ret.value = Some(first[<<ret.column, ret.window.val>>])
        /\ analysis_df = ret.before

\* A repeated call on an Analysis that holds other cached columns as well.
C12_Witness ==
    /\ ret.op = "simple_moving_average"
    /\ ret.again
    /\ ret.column = "open"
    /\ ret.window = IntArg(2)
    /\ Cardinality(DOMAIN analysis_df) >= 3
    /\ ret.value = Some(analysis_df["open_sma_2"])

\* ------------------------------------------------------- SMA50CrossSMA200
\* C13: SMA50CrossSMA200(data) ends as MovingAverageCrossover(data) with
\* SimpleMovingAverage windows 50 and 200 ends on the same data: with the
\* same output when that succeeds, with the same error when that fails.
C13_PresetIsCrossover ==
    (cls = "SMA50CrossSMA200" /\ pc \in {"done", "raised"} /\ twin # None) =>
        Outcome = twin.val

\* Both succeed with a crossing reported, on a series of more than 200.
C13_Witness ==
    /\ cls = "SMA50CrossSMA200"
    /\ pc = "done"
    /\ twin # None
    /\ twin.val.exc = NoError
    /\ Len(data.vals) > Win200
    /\ \E k \in 1..Len(Output) : Output[k] # 0

\* --------------------------------------------------------- output views
\* C14 as claimed: once an indicator is constructed, no view the caller
\* takes and no write of the caller into a returned value changes the
\* output series the indicator holds.
C14_OutputImmutable ==
    [][(pc \in {"done", "viewed"} /\ pc' \in {"viewed", "wrote"}) =>
            self'._output_data = self._output_data]_vars

\* C14 as amended: taking a view, and a write of the caller into a list
\* that to_list returned, change nothing the indicator holds.
C14_ListWritesKeepOutput ==
    [][(\/ pc' = "viewed"
        \/ (view.name = "to_list" /\ view'.name = "to_list" /\ view'.wrote
                /\ view' # view)) => self' = self]_vars

\* The caller has written into a list from to_list, and the list now
\* differs from the output the indicator holds.
C14_Witness ==
    /\ pc = "wrote"
    /\ view.name = "to_list"
    /\ view.wrote
    /\ view.value # self._output_data
    /\ ToList(self._output_data).value # view.value

\* ----------------------------------------------------- construction order
Before(seq, a, b) ==
    \E i \in 1..Len(seq), j \in 1..Len(seq) : i < j /\ seq[i] = a /\ seq[j] = b

\* The window checks pass for window w on data d.
ValidWindow(w, d) == w.type = "int" /\ 1 <= w.val /\ w.val <= Len(d.vals)

\* C15 as claimed: for every concrete indicator _calculation starts only
\* after normalize and validate, in this order, and only on data (and, for
\* a moving average, a window) that passes the checks.
C15_ChecksBeforeCalculation ==
    (cls \in {"SimpleMovingAverage", "MovingAverageCrossover", "SMA50CrossSMA200"}
        /\ Has(steps, "calculate")) =>
        /\ Before(steps, "normalize", "validate")
        /\ Before(steps, "validate", "calculate")
        /\ ValidData(data)
        /\ cls = "SimpleMovingAverage" => ValidWindow(window, data)

\* C15 as amended: for SimpleMovingAverage and MovingAverageCrossover
\* _calculation starts only after normalize and validate, in this order,
\* and only on data (and window) that passes the checks; SMA50CrossSMA200
\* enters _calculation with no step of its own before it but keeping the
\* data, and holds an output only for data that passes the checks of the
\* crossover it builds.
C15_ChecksBeforeOutput ==
    /\ (cls \in {"SimpleMovingAverage", "MovingAverageCrossover"}
            /\ Has(steps, "calculate")) =>
        /\ Before(steps, "normalize", "validate")
        /\ Before(steps, "validate", "calculate")
        /\ ValidData(data)
        /\ cls = "SimpleMovingAverage" => ValidWindow(window, data)
    /\ (cls \in {"SimpleMovingAverage", "MovingAverageCrossover"}
            /\ pc \in {"done", "raised"}
            /\ ~(ValidData(data)
                    /\ (cls = "SimpleMovingAverage" => ValidWindow(window, data)))) =>
        /\ pc = "raised"
        /\ ~Has(steps, "calculate")
    /\ (cls = "SMA50CrossSMA200" /\ Has(steps, "calculate")) =>
        /\ steps = <<"keep", "calculate">>
        /\ self._output_data # None =>
            ValidData(data) /\ Len(data.vals) >= Win200

\* SMA50CrossSMA200 has entered _calculation on data the checks reject, and
\* ended with the error and no output.
C15_Witness ==
    /\ cls = "SMA50CrossSMA200"
    /\ pc = "raised"
    /\ steps = <<"keep", "calculate">>
    /\ ~ValidData(data)
    /\ self._output_data = None

\* ---------------------------------------------------------------- Analysis
\* C16: whatever was called before, simple_moving_average(window, column)
\* on a column of n samples raises TypeError for a window that is no
\* integer, ValueError for an integer window below 1 or above n, and
\* otherwise returns the moving average of that column over that window.
C16_WindowOutcome ==
    (ret.op = "simple_moving_average" /\ ret.column \in DOMAIN input_df.val) =>
        LET x == input_df.val[ret.column].vals
            w == ret.window
        IN  /\ w.type # "int" => ret.exc.type = "TypeError"
            /\ (w.type = "int" /\ (w.val <= 0 \/ w.val > Len(x))) =>
                    ret.exc.type = "ValueError"
            /\ (w.type = "int" /\ 1 <= w.val /\ w.val <= Len(x)) =>
                    /\ ret.exc = NoError
                    /\ ret.value =
                        Some([k \in 1..Len(x) |->
                            Rat(SumRange(x, Max(1, k - w.val + 1), k), w.val)])

\* ------------------------------------------------- MovingAverageCrossover
\* C17: wherever the signal is not 0, at index i (position k = i+1), both
\* windows are full at i-1 already: i-1 >= wa-1 and i-1 >= wb-1, so that the
\* four averages compared are means of wa and of wb samples.
C17_FullWindowsOnly ==
    Built("MovingAverageCrossover") =>
        \A k \in 1..Len(Output) :
            Output[k] # 0 =>
                /\ k - 2 >= WinA - 1
                /\ k - 2 >= WinB - 1
                /\ \A j \in {k - 1, k} :
                    /\ CompA[j] = Rat(SumRange(data.vals, j - WinA + 1, j), WinA)
                    /\ CompB[j] = Rat(SumRange(data.vals, j - WinB + 1, j), WinB)

\* A crossing reported at index max(wa, wb) itself, the first it can be
\* reported at, with two windows that differ.
C17_Witness ==
    /\ Built("MovingAverageCrossover")
    /\ WinA # WinB
    /\ Len(Output) > Max(WinA, WinB)
    /\ Output[Max(WinA, WinB) + 1] # 0

\* C18: when the MovingAverageCrossover constructor has ended, with an
\* output or with an error, the caller's ma1 and ma2 mappings hold the keys
\* and values the caller wrote.
C18_ArgumentsUnchanged ==
    (cls = "MovingAverageCrossover" /\ pc \in {"done", "raised"} /\ prev = None) =>
        func_args = written

====
